---------------------------- MODULE Spec2Model ----------------------------
(***************************************************************************)
(* Payroll page of the business finance management system: the React      *)
(* component PayrollPage (src/src/pages/PayrollPage.tsx), its asynchronous *)
(* handlers and the tables of the hosted datastore it reads and writes     *)
(* (src/unnamed/part_001).                                                 *)
(*                                                                         *)
(* Numbers.  Every JavaScript number that is an amount of money or a       *)
(* threshold is kept as an exact fixed-point integer with denominator Den: *)
(* the integer X stands for the number X / Den.  Hours are whole numbers.  *)
(* A tax rate is kept in units of 1 / RateDen, so the stored rate 0.18 is  *)
(* the integer 18.  All inputs are whole currency amounts, so every        *)
(* product and quotient the code forms is exact in this representation.    *)
(***************************************************************************)
EXTENDS Integers, Sequences, FiniteSets, TLC

VARIABLES
    db_tax_rules,         \* table tax_rules: rule id -> is_active
    db_employees,         \* table employees: id of each row -> is_active
    db_payroll_records,   \* table payroll_records: sequence of stored rows
    dbChanges,            \* number of administrative changes made to the tables
    employees,            \* useState<Employee[]>
    payrollRecords,       \* useState<PayrollRecord[]>
    taxRules,             \* useState<TaxRule[]>
    payrollDialogOpen,    \* useState(false)
    payrollForm,          \* values held by payrollForm (react-hook-form)
    pending,              \* the fetches that were started and have not resolved
    subs,                 \* the onPayrollSubmit calls in flight, by slot
    inflightCap,          \* how many onPayrollSubmit calls may overlap
    session               \* what the user of this session enters in the dialog

vars == <<db_tax_rules, db_employees, db_payroll_records, dbChanges, employees,
          payrollRecords, taxRules, payrollDialogOpen, payrollForm, pending,
          subs, inflightCap, session>>

-----------------------------------------------------------------------------
(* Representation of values *)

\* fixed-point denominator of amounts: halves (overtime factor 1.5) of
\* ten-thousandths (a rate in hundredths, divided by 100)
Den == 20000

\* a rate r is stored as the integer r * RateDen
RateDen == 100

\* SQL NULL / JavaScript null
NULL == -999999999

\* the empty string '' of a form field
EmptyStr == -999999998

\* JavaScript Infinity
Infinity == 999999999

\* whole currency amount -> fixed point
Money(n) == n * Den

\* bounds of the exploration: changes made to the rows of the tables, payroll
\* runs of a page that submits one at a time, payroll runs of a page whose
\* submissions overlap
MaxDbChanges == 1
MaxRecords == 1
MaxRuns == 2

-----------------------------------------------------------------------------
(* Contents of the datastore *)

TaxRuleIds == {1, 2, 3, 4}

\* the rows of tax_rules, apart from is_active
TaxRuleRow(id) ==
    CASE id = 1 -> [id |-> 1, rate |-> 10, threshold_min |-> 0,
                    threshold_max |-> Money(1000)]
      [] id = 2 -> [id |-> 2, rate |-> 20, threshold_min |-> Money(1000),
                    threshold_max |-> NULL]
      [] id = 3 -> [id |-> 3, rate |-> 30, threshold_min |-> Money(500),
                    threshold_max |-> Money(200)]
      [] id = 4 -> [id |-> 4, rate |-> 10, threshold_min |-> 0,
                    threshold_max |-> 0]

EmployeeIds == {1, 2, 3}

\* the rows of employees, apart from is_active
EmployeeRow(id) ==
    CASE id = 1 -> [id |-> 1, base_salary |-> Money(4000),
                    hourly_rate |-> Money(20)]
      [] id = 2 -> [id |-> 2, base_salary |-> Money(5000),
                    hourly_rate |-> NULL]
      [] id = 3 -> [id |-> 3, base_salary |-> Money(3000),
                    hourly_rate |-> 0]

UserIds == {1}

\* the rules an administrator activates or deactivates while the page is open
ChangedTaxRules == {2, 3}

\* the sets of rules that may be active when the page is opened
InitialActiveRules == {{}, {1, 2}, {3}, {1, 2, 3, 4}}


-----------------------------------------------------------------------------
(* Queries of the hosted datastore *)

RECURSIVE SeqsOf(_)
\* the sequences that hold every element of the set S once
SeqsOf(S) ==
    IF S = {} THEN {<<>>}
    ELSE UNION {{<<x>> \o rest : rest \in SeqsOf(S \ {x})} : x \in S}

\* ORDER BY threshold_min (ascending, NULLS LAST): a before-or-equal b
ThresholdMinLeq(a, b) ==
    \/ b.threshold_min = NULL
    \/ a.threshold_min # NULL /\ a.threshold_min <= b.threshold_min

\* SelectActiveTaxRules without .eq('is_active', true)
SelectAllTaxRules(db) ==
    {s \in SeqsOf(TaxRuleIds) :
        \A i, j \in 1..Len(s) :
            i < j => ThresholdMinLeq(TaxRuleRow(s[i]), TaxRuleRow(s[j]))}

\* .from('tax_rules').select('*').eq('is_active', true).order('threshold_min'):
\* every answer the datastore may give (rows of equal threshold_min come in
\* any order)
SelectActiveTaxRules(db) ==
    {s \in SeqsOf({id \in TaxRuleIds : db[id] = TRUE}) :
        \A i, j \in 1..Len(s) :
            i < j => ThresholdMinLeq(TaxRuleRow(s[i]), TaxRuleRow(s[j]))}

\* the rows for a sequence of rule ids
TaxRuleRows(ids) == [i \in 1..Len(ids) |-> TaxRuleRow(ids[i])]

RECURSIVE IdsDescending(_)
\* the ids of a set, newest (highest) first
IdsDescending(S) ==
    IF S = {} THEN <<>>
    ELSE LET m == CHOOSE x \in S : \A y \in S : y <= x
         IN  <<m>> \o IdsDescending(S \ {m})

\* .from('employees').select('*').order('created_at', { ascending: false })
SelectEmployees(db) ==
    LET ids == IdsDescending(DOMAIN db)
    IN  [i \in 1..Len(ids) |->
            [id |-> ids[i],
             base_salary |-> EmployeeRow(ids[i]).base_salary,
             hourly_rate |-> EmployeeRow(ids[i]).hourly_rate,
             is_active |-> db[ids[i]]]]

\* .from('payroll_records').select(...).order('created_at', { ascending: false })
SelectPayrollRecords(db) == [i \in 1..Len(db) |-> db[Len(db) + 1 - i]]

\* a value stored in a DECIMAL(15,2) column: rounded to two decimals, half
\* away from zero
Decimal2(x) ==
    LET cent == Den \div 100
        mag == IF x < 0 THEN 0 - x ELSE x
        r == ((mag + cent \div 2) \div cent) * cent
    IN  IF x < 0 THEN 0 - r ELSE r

\* INSERT INTO payroll_records: the row the table keeps for payrollData
StoredRow(payrollData) ==
    [payrollData EXCEPT !.gross_salary = Decimal2(payrollData.gross_salary),
                        !.tax_deductions = Decimal2(payrollData.tax_deductions),
                        !.deductions = Decimal2(payrollData.deductions),
                        !.allowances = Decimal2(payrollData.allowances),
                        !.net_salary = Decimal2(payrollData.net_salary)]

-----------------------------------------------------------------------------
(* Pure computations of the page *)

\* JavaScript a || b on numbers: b when a is null, 0 (or NaN)
OrElse(a, b) == IF a = NULL \/ a = 0 THEN b ELSE a

\* JavaScript str || dflt on strings: dflt when str is ''
StrOr(str, dflt) == IF str = EmptyStr THEN dflt ELSE str

\* Math.min
MathMin(a, b) == IF a = Infinity THEN b ELSE IF b = Infinity THEN a
                 ELSE IF a < b THEN a ELSE b

\* TimesRate with the rate taken a thousand times too high
TimesRateThousandfold(amount, rate, divisor) ==
    (amount \div (RateDen * divisor)) * rate * 1000

\* amount * (rate / divisor), where rate is the stored rate (rate / RateDen):
\* exact, because every amount is a multiple of RateDen * divisor
TimesRate(amount, rate, divisor) == (amount \div (RateDen * divisor)) * rate

RECURSIVE calculateTaxInBracketOnly(_, _)
\* calculateTax applying a rule only to a gross inside its bracket
calculateTaxInBracketOnly(grossSalary, rules) ==
    IF rules = <<>> THEN 0
    ELSE LET rule == rules[Len(rules)]
             totalTax == calculateTaxInBracketOnly(grossSalary,
                                                   SubSeq(rules, 1, Len(rules) - 1))
             min == OrElse(rule.threshold_min, 0)
             max == OrElse(rule.threshold_max, Infinity)
         IN  IF grossSalary > min /\ (max = Infinity \/ grossSalary <= max)
             THEN LET taxableAmount == MathMin(grossSalary, max) - min
                  IN  totalTax + TimesRate(taxableAmount, rule.rate, 100)
             ELSE totalTax

RECURSIVE calculateTaxUnguarded(_, _)
\* calculateTax without the test grossSalary > min
calculateTaxUnguarded(grossSalary, rules) ==
    IF rules = <<>> THEN 0
    ELSE LET rule == rules[Len(rules)]
             totalTax == calculateTaxUnguarded(grossSalary,
                                               SubSeq(rules, 1, Len(rules) - 1))
             min == OrElse(rule.threshold_min, 0)
             max == OrElse(rule.threshold_max, Infinity)
             taxableAmount == MathMin(grossSalary, max) - min
         IN  totalTax + TimesRate(taxableAmount, rule.rate, 100)

RECURSIVE calculateTaxFirstMatch(_, _)
\* calculateTax leaving the loop after the first rule that applies
calculateTaxFirstMatch(grossSalary, rules) ==
    IF rules = <<>> THEN 0
    ELSE LET rule == Head(rules)
             min == OrElse(rule.threshold_min, 0)
             max == OrElse(rule.threshold_max, Infinity)
         IN  IF grossSalary > min
             THEN TimesRate(MathMin(grossSalary, max) - min, rule.rate, 100)
             ELSE calculateTaxFirstMatch(grossSalary, Tail(rules))

RECURSIVE calculateTax(_, _)
\* calculateTax, reading the rule list of the render it was created in
calculateTax(grossSalary, rules) ==
    IF rules = <<>> THEN 0
    ELSE LET rule == rules[Len(rules)]
             totalTax == calculateTax(grossSalary, SubSeq(rules, 1, Len(rules) - 1))
             min == OrElse(rule.threshold_min, 0)
             max == OrElse(rule.threshold_max, Infinity)
         IN  IF grossSalary > min
             THEN LET taxableAmount == MathMin(grossSalary, max) - min
                  IN  totalTax + TimesRate(taxableAmount, rule.rate, 100)
             ELSE totalTax

\* parseFloat of a form field holding a whole decimal number of hours
parseHours(str) == str

\* parseAmount reading the digits as cents
parseAmountInCents(str) == str * (Den \div 100)

\* parseFloat of a form field holding a whole decimal amount
parseAmount(str) == Money(str)

\* grossBeforeAllowances paying a salaried employee by the hours worked
grossBeforeAllowancesProrated(employee, hoursWorked, overtimeHours) ==
    IF employee.hourly_rate # NULL /\ employee.hourly_rate # 0
    THEN LET regularPay == hoursWorked * employee.hourly_rate
             overtimePay == (overtimeHours * employee.hourly_rate * 3) \div 2
         IN  regularPay + overtimePay
    ELSE (employee.base_salary \div 160) * hoursWorked

\* the gross salary before allowances (the branch on employee.hourly_rate)
grossBeforeAllowances(employee, hoursWorked, overtimeHours) ==
    IF employee.hourly_rate # NULL /\ employee.hourly_rate # 0
    THEN LET regularPay == hoursWorked * employee.hourly_rate
             overtimePay == (overtimeHours * employee.hourly_rate * 3) \div 2
         IN  regularPay + overtimePay
    ELSE employee.base_salary

\* payrollData with the net salary computed without the deductions
payrollDataNetOfTaxOnly(values, employee, rules, user) ==
    LET hoursWorked == parseHours(values.hours_worked)
        overtimeHours == parseHours(StrOr(values.overtime_hours, 0))
        allowances == parseAmount(StrOr(values.allowances, 0))
        deductions == parseAmount(StrOr(values.deductions, 0))
        grossSalary == grossBeforeAllowances(employee, hoursWorked, overtimeHours)
                       + allowances
        taxDeductions == calculateTax(grossSalary, rules)
        netSalary == grossSalary - taxDeductions
    IN  [employee_id |-> values.employee_id,
         pay_period_start |-> values.pay_period_start,
         pay_period_end |-> values.pay_period_end,
         hours_worked |-> hoursWorked,
         overtime_hours |-> overtimeHours,
         gross_salary |-> grossSalary,
         tax_deductions |-> taxDeductions,
         deductions |-> deductions,
         allowances |-> allowances,
         net_salary |-> netSalary,
         created_by |-> user]

\* payrollData with the tax computed before the allowances are added
payrollDataTaxBeforeAllowances(values, employee, rules, user) ==
    LET hoursWorked == parseHours(values.hours_worked)
        overtimeHours == parseHours(StrOr(values.overtime_hours, 0))
        allowances == parseAmount(StrOr(values.allowances, 0))
        deductions == parseAmount(StrOr(values.deductions, 0))
        basis == grossBeforeAllowances(employee, hoursWorked, overtimeHours)
        taxDeductions == calculateTax(basis, rules)
        grossSalary == basis + allowances
        netSalary == grossSalary - taxDeductions - deductions
    IN  [employee_id |-> values.employee_id,
         pay_period_start |-> values.pay_period_start,
         pay_period_end |-> values.pay_period_end,
         hours_worked |-> hoursWorked,
         overtime_hours |-> overtimeHours,
         gross_salary |-> grossSalary,
         tax_deductions |-> taxDeductions,
         deductions |-> deductions,
         allowances |-> allowances,
         net_salary |-> netSalary,
         created_by |-> user]

\* payrollData with a negative net salary raised to 0
payrollDataNetFloored(values, employee, rules, user) ==
    LET hoursWorked == parseHours(values.hours_worked)
        overtimeHours == parseHours(StrOr(values.overtime_hours, 0))
        allowances == parseAmount(StrOr(values.allowances, 0))
        deductions == parseAmount(StrOr(values.deductions, 0))
        grossSalary == grossBeforeAllowances(employee, hoursWorked, overtimeHours)
                       + allowances
        taxDeductions == calculateTax(grossSalary, rules)
        netSalary == grossSalary - taxDeductions - deductions
    IN  [employee_id |-> values.employee_id,
         pay_period_start |-> values.pay_period_start,
         pay_period_end |-> values.pay_period_end,
         hours_worked |-> hoursWorked,
         overtime_hours |-> overtimeHours,
         gross_salary |-> grossSalary,
         tax_deductions |-> taxDeductions,
         deductions |-> deductions,
         allowances |-> allowances,
         net_salary |-> IF netSalary < 0 THEN 0 ELSE netSalary,
         created_by |-> user]

\* the object onPayrollSubmit hands to the datastore
payrollData(values, employee, rules, user) ==
    LET hoursWorked == parseHours(values.hours_worked)
        overtimeHours == parseHours(StrOr(values.overtime_hours, 0))
        allowances == parseAmount(StrOr(values.allowances, 0))
        deductions == parseAmount(StrOr(values.deductions, 0))
        grossSalary == grossBeforeAllowances(employee, hoursWorked, overtimeHours)
                       + allowances
        taxDeductions == calculateTax(grossSalary, rules)
        netSalary == grossSalary - taxDeductions - deductions
    IN  [employee_id |-> values.employee_id,
         pay_period_start |-> values.pay_period_start,
         pay_period_end |-> values.pay_period_end,
         hours_worked |-> hoursWorked,
         overtime_hours |-> overtimeHours,
         gross_salary |-> grossSalary,
         tax_deductions |-> taxDeductions,
         deductions |-> deductions,
         allowances |-> allowances,
         net_salary |-> netSalary,
         created_by |-> user]

-----------------------------------------------------------------------------
(* The page *)

Slots == {1, 2}

\* a slot with no onPayrollSubmit call in it
Idle == [pc |-> "idle"]

\* defaultValues of payrollForm
DefaultValues ==
    [employee_id |-> EmptyStr, pay_period_start |-> EmptyStr,
     pay_period_end |-> EmptyStr, hours_worked |-> EmptyStr,
     overtime_hours |-> 0, allowances |-> 0, deductions |-> 0]

\* what a user may type into the number fields of the payroll dialog:
\* <<hours_worked, overtime_hours, allowances, deductions>>
PayInputs ==
    {<<160, 10, EmptyStr, EmptyStr>>, <<160, EmptyStr, 500, 200>>,
     <<0, 10, 500, EmptyStr>>, <<0, EmptyStr, EmptyStr, 200>>}

\* number fields with negative hours typed in (payrollSchema and the inputs
\* of the dialog set no minimum)
NegativeHoursInputs ==
    {<<-8, EmptyStr, EmptyStr, EmptyStr>>, <<160, -10, EmptyStr, EmptyStr>>}

\* the number fields left as they are when the dialog opens
BlankInputs == <<EmptyStr, 0, 0, 0>>

\* number fields with a negative allowance and a negative deduction typed in
NegativeAmountInputs == {<<160, EmptyStr, -100, -50>>}

\* the pay periods a user may pick: <<pay_period_start, pay_period_end>>
PeriodInputs == {<<1, 31>>}

\* a pay period picked with its start after its end
ReversedPeriodInputs == {<<31, 1>>}

\* the options of the employee select: employees.filter(e => e.is_active)
ShownEmployees(emps) == {emps[i].id : i \in {j \in 1..Len(emps) : emps[j].is_active}}

\* the values of the dialog for an employee option, a period and number fields
FormValues(e, p, t) ==
    [employee_id |-> e, pay_period_start |-> p[1], pay_period_end |-> p[2],
     hours_worked |-> t[1], overtime_hours |-> t[2], allowances |-> t[3],
     deductions |-> t[4]]

\* the sessions: the employee a user pays and the numbers the user types
Sessions ==
    [employee_id : {1, 2}, inputs : PayInputs, period : PeriodInputs]
    \cup [employee_id : {3}, period : PeriodInputs,
          inputs : {<<160, 10, EmptyStr, EmptyStr>>, <<0, 10, 500, EmptyStr>>}]

\* the sessions with a negative number or a reversed period entered
OutOfRangeSessions ==
    [employee_id : {1}, inputs : NegativeHoursInputs, period : PeriodInputs]
    \cup [employee_id : {2}, inputs : NegativeAmountInputs, period : PeriodInputs]
    \cup [employee_id : {2}, inputs : {<<160, EmptyStr, 500, 200>>},
          period : ReversedPeriodInputs]

\* what the dialog can hold when the user presses "Generate Payroll": the
\* employee is picked among the options shown, or is the one the form kept
\* from an earlier submission
FormInputs(emps) ==
    {FormValues(e, p, t) :
        e \in (ShownEmployees(emps) \cap {session.employee_id})
               \cup ({payrollForm.employee_id} \ {EmptyStr}),
        p \in {session.period}, t \in {session.inputs, BlankInputs}}
    \cup {FormValues(EmptyStr, p, BlankInputs) : p \in {session.period}}

\* payrollSchema: the fields that must not be empty
SchemaAccepts(values) ==
    /\ values.employee_id # EmptyStr
    /\ values.pay_period_start # EmptyStr
    /\ values.pay_period_end # EmptyStr
    /\ values.hours_worked # EmptyStr

\* employees.find(e => e.id === id): the index of the first match, 0 for none
FindEmployee(emps, id) ==
    IF \E i \in 1..Len(emps) : emps[i].id = id
    THEN CHOOSE i \in 1..Len(emps) :
            emps[i].id = id /\ \A j \in 1..(i - 1) : emps[j].id # id
    ELSE 0

InFlight == {s \in Slots : subs[s].pc # "idle"}

\* the payroll runs explored
RunCap == IF inflightCap = 1 THEN MaxRecords ELSE MaxRuns

\* the employees an administrator or the user of this session changes
ChangedEmployees == {session.employee_id}

Init ==
    /\ session \in Sessions \cup OutOfRangeSessions
    /\ db_tax_rules \in {[id \in TaxRuleIds |-> id \in S] :
                            S \in IF session \in Sessions THEN InitialActiveRules
                                  ELSE {{1, 2}}}
    /\ db_employees = [id \in EmployeeIds |-> TRUE]
    /\ db_payroll_records = <<>>
    /\ dbChanges = 0
    /\ employees = <<>>
    /\ payrollRecords = <<>>
    /\ taxRules = <<>>
    /\ payrollDialogOpen = FALSE
    /\ payrollForm = DefaultValues
    /\ pending = {"employees", "payroll_records", "tax_rules"}
    /\ subs = [s \in Slots |-> Idle]
    /\ inflightCap = 1

\* fetchEmployees resolves with rows
fetchEmployeesData ==
    /\ "employees" \in pending
    /\ pending' = pending \ {"employees"}
    /\ employees' = SelectEmployees(db_employees)
    /\ UNCHANGED <<db_tax_rules, db_employees, db_payroll_records, dbChanges,
                   payrollRecords, taxRules, payrollDialogOpen, payrollForm,
                   subs, inflightCap, session>>

\* fetchPayrollRecords resolves with rows
fetchPayrollRecordsData ==
    /\ "payroll_records" \in pending
    /\ pending' = pending \ {"payroll_records"}
    /\ payrollRecords' = SelectPayrollRecords(db_payroll_records)
    /\ UNCHANGED <<db_tax_rules, db_employees, db_payroll_records, dbChanges,
                   employees, taxRules, payrollDialogOpen, payrollForm, subs,
                   inflightCap, session>>

\* fetchTaxRulesData handing the new rows to the submissions in flight too
fetchTaxRulesDataShared ==
    /\ "tax_rules" \in pending
    /\ pending' = pending \ {"tax_rules"}
    /\ \E ids \in SelectActiveTaxRules(db_tax_rules) :
          /\ taxRules' = TaxRuleRows(ids)
          /\ subs' = [s \in Slots |->
                         IF subs[s].pc = "getUser"
                         THEN [subs[s] EXCEPT !.taxRules = TaxRuleRows(ids)]
                         ELSE subs[s]]
    /\ UNCHANGED <<db_tax_rules, db_employees, db_payroll_records, dbChanges,
                   employees, payrollRecords, payrollDialogOpen, payrollForm,
                   inflightCap, session>>

\* fetchTaxRules resolves with rows
fetchTaxRulesData ==
    /\ "tax_rules" \in pending
    /\ pending' = pending \ {"tax_rules"}
    /\ \E ids \in SelectActiveTaxRules(db_tax_rules) :
          taxRules' = TaxRuleRows(ids)
    /\ UNCHANGED <<db_tax_rules, db_employees, db_payroll_records, dbChanges,
                   employees, payrollRecords, payrollDialogOpen, payrollForm,
                   subs, inflightCap, session>>

\* a fetch resolves with an error: a toast, and the state is left as it was
fetchError ==
    /\ \E t \in pending : pending' = pending \ {t}
    /\ UNCHANGED <<db_tax_rules, db_employees, db_payroll_records, dbChanges,
                   employees, payrollRecords, taxRules, payrollDialogOpen,
                   payrollForm, subs, inflightCap, session>>

\* the dialog is opened (DialogTrigger)
openPayrollDialog ==
    /\ ~payrollDialogOpen
    /\ payrollDialogOpen' = TRUE
    /\ UNCHANGED <<db_tax_rules, db_employees, db_payroll_records, dbChanges,
                   employees, payrollRecords, taxRules, payrollForm, pending,
                   subs, inflightCap, session>>

\* Cancel, or the dialog is dismissed: the form keeps its values
closePayrollDialog ==
    /\ payrollDialogOpen
    /\ payrollDialogOpen' = FALSE
    /\ UNCHANGED <<db_tax_rules, db_employees, db_payroll_records, dbChanges,
                   employees, payrollRecords, taxRules, payrollForm, pending,
                   subs, inflightCap, session>>

\* the user fills the dialog and presses "Generate Payroll", and payrollSchema
\* rejects the values: onPayrollSubmit is not called
handleSubmitInvalid ==
    /\ payrollDialogOpen
    /\ \E values \in FormInputs(employees) :
          /\ ~SchemaAccepts(values)
          /\ payrollForm' = values
    /\ UNCHANGED <<db_tax_rules, db_employees, db_payroll_records, dbChanges,
                   employees, payrollRecords, taxRules, payrollDialogOpen,
                   pending, subs, inflightCap, session>>

\* the user fills the dialog and presses "Generate Payroll": onPayrollSubmit
\* starts with the employees and taxRules of the current render and waits for
\* supabase.auth.getUser()
onPayrollSubmit ==
    /\ payrollDialogOpen
    /\ Cardinality(InFlight) < inflightCap
    /\ Slots \ InFlight # {}
    /\ Len(db_payroll_records) + Cardinality(InFlight) < RunCap
    /\ \E values \in FormInputs(employees) :
          /\ SchemaAccepts(values)
          /\ payrollForm' = values
          /\ LET s == CHOOSE t \in Slots \ InFlight : \A u \in Slots \ InFlight : t <= u
             IN  subs' = [subs EXCEPT ![s] =
                            [pc |-> "getUser", values |-> values,
                             employees |-> employees, taxRules |-> taxRules]]
    /\ UNCHANGED <<db_tax_rules, db_employees, db_payroll_records, dbChanges,
                   employees, payrollRecords, taxRules, payrollDialogOpen,
                   pending, inflightCap, session>>

\* onPayrollSubmitReturn resetting the form and closing the dialog
onPayrollSubmitReturnResets(s) ==
    /\ subs[s].pc = "getUser"
    /\ \E user \in UserIds \cup {NULL} :
          user = NULL \/ FindEmployee(subs[s].employees, subs[s].values.employee_id) = 0
    /\ subs' = [subs EXCEPT ![s] = Idle]
    /\ payrollForm' = DefaultValues
    /\ payrollDialogOpen' = FALSE
    /\ UNCHANGED <<db_tax_rules, db_employees, db_payroll_records, dbChanges,
                   employees, payrollRecords, taxRules, pending, inflightCap,
                   session>>

\* getUser resolves with no user, or the employee is not in the list: return
onPayrollSubmitReturn(s) ==
    /\ subs[s].pc = "getUser"
    /\ \E user \in UserIds \cup {NULL} :
          user = NULL \/ FindEmployee(subs[s].employees, subs[s].values.employee_id) = 0
    /\ subs' = [subs EXCEPT ![s] = Idle]
    /\ UNCHANGED <<db_tax_rules, db_employees, db_payroll_records, dbChanges,
                   employees, payrollRecords, taxRules, payrollDialogOpen,
                   payrollForm, pending, inflightCap, session>>

\* onPayrollSubmitCompute reading the taxRules of the latest render
onPayrollSubmitComputeCurrentRules(s) ==
    /\ subs[s].pc = "getUser"
    /\ FindEmployee(subs[s].employees, subs[s].values.employee_id) # 0
    /\ \E user \in UserIds :
          LET employee == subs[s].employees[
                              FindEmployee(subs[s].employees, subs[s].values.employee_id)]
          IN  subs' = [subs EXCEPT ![s] =
                         [pc |-> "insert", values |-> subs[s].values,
                          employee |-> employee, taxRules |-> subs[s].taxRules,
                          payrollData |-> payrollData(subs[s].values, employee,
                                                      taxRules, user)]]
    /\ UNCHANGED <<db_tax_rules, db_employees, db_payroll_records, dbChanges,
                   employees, payrollRecords, taxRules, payrollDialogOpen,
                   payrollForm, pending, inflightCap, session>>

\* onPayrollSubmitCompute reading the number fields the form holds when
\* getUser resolves
onPayrollSubmitComputeFromForm(s) ==
    /\ subs[s].pc = "getUser"
    /\ FindEmployee(subs[s].employees, subs[s].values.employee_id) # 0
    /\ \E user \in UserIds :
          LET employee == subs[s].employees[
                              FindEmployee(subs[s].employees, subs[s].values.employee_id)]
              current == [subs[s].values EXCEPT
                             !.hours_worked = StrOr(payrollForm.hours_worked, 0),
                             !.overtime_hours = payrollForm.overtime_hours,
                             !.allowances = payrollForm.allowances,
                             !.deductions = payrollForm.deductions]
          IN  subs' = [subs EXCEPT ![s] =
                         [pc |-> "insert", values |-> subs[s].values,
                          employee |-> employee, taxRules |-> subs[s].taxRules,
                          payrollData |-> payrollData(current, employee,
                                                      subs[s].taxRules, user)]]
    /\ UNCHANGED <<db_tax_rules, db_employees, db_payroll_records, dbChanges,
                   employees, payrollRecords, taxRules, payrollDialogOpen,
                   payrollForm, pending, inflightCap, session>>

\* getUser resolves with a user: gross, tax and net are computed and the
\* insert is sent
onPayrollSubmitCompute(s) ==
    /\ subs[s].pc = "getUser"
    /\ FindEmployee(subs[s].employees, subs[s].values.employee_id) # 0
    /\ \E user \in UserIds :
          LET employee == subs[s].employees[
                              FindEmployee(subs[s].employees, subs[s].values.employee_id)]
          IN  subs' = [subs EXCEPT ![s] =
                         [pc |-> "insert", values |-> subs[s].values,
                          employee |-> employee, taxRules |-> subs[s].taxRules,
                          payrollData |-> payrollData(subs[s].values, employee,
                                                      subs[s].taxRules, user)]]
    /\ UNCHANGED <<db_tax_rules, db_employees, db_payroll_records, dbChanges,
                   employees, payrollRecords, taxRules, payrollDialogOpen,
                   payrollForm, pending, inflightCap, session>>

\* onPayrollSubmitInsertError with the latest stored row removed
onPayrollSubmitInsertErrorDropsLast(s) ==
    /\ subs[s].pc = "insert"
    /\ subs' = [subs EXCEPT ![s] = Idle]
    /\ db_payroll_records' =
           SubSeq(db_payroll_records, 1, Len(db_payroll_records) - 1)
    /\ UNCHANGED <<db_tax_rules, db_employees, dbChanges, employees,
                   payrollRecords, taxRules, payrollDialogOpen, payrollForm,
                   pending, inflightCap, session>>

\* onPayrollSubmitInsertError resetting the form, closing the dialog and
\* starting fetchPayrollRecords
onPayrollSubmitInsertErrorResets(s) ==
    /\ subs[s].pc = "insert"
    /\ subs' = [subs EXCEPT ![s] = Idle]
    /\ payrollForm' = DefaultValues
    /\ payrollDialogOpen' = FALSE
    /\ pending' = pending \cup {"payroll_records"}
    /\ UNCHANGED <<db_tax_rules, db_employees, db_payroll_records, dbChanges,
                   employees, payrollRecords, taxRules, inflightCap, session>>

\* the insert is rejected: a toast, and nothing else changes
onPayrollSubmitInsertError(s) ==
    /\ subs[s].pc = "insert"
    /\ subs' = [subs EXCEPT ![s] = Idle]
    /\ UNCHANGED <<db_tax_rules, db_employees, db_payroll_records, dbChanges,
                   employees, payrollRecords, taxRules, payrollDialogOpen,
                   payrollForm, pending, inflightCap, session>>

\* the insert succeeds (employee_id references a row of employees): the row
\* is stored, the form reset, the dialog closed and fetchPayrollRecords started
onPayrollSubmitInserted(s) ==
    /\ subs[s].pc = "insert"
    /\ subs[s].payrollData.employee_id \in DOMAIN db_employees
    /\ db_payroll_records' = Append(db_payroll_records, StoredRow(subs[s].payrollData))
    /\ payrollForm' = DefaultValues
    /\ payrollDialogOpen' = FALSE
    /\ pending' = pending \cup {"payroll_records"}
    /\ subs' = [subs EXCEPT ![s] = Idle]
    /\ UNCHANGED <<db_tax_rules, db_employees, dbChanges, employees,
                   payrollRecords, taxRules, inflightCap, session>>

\* an administrator activates or deactivates a tax rule ("Admins can manage
\* tax rules")
adminSetTaxRuleActive ==
    /\ dbChanges < MaxDbChanges
    /\ dbChanges' = dbChanges + 1
    /\ \E id \in ChangedTaxRules :
          db_tax_rules' = [db_tax_rules EXCEPT ![id] = ~db_tax_rules[id]]
    /\ UNCHANGED <<db_employees, db_payroll_records, employees, payrollRecords,
                   taxRules, payrollDialogOpen, payrollForm, pending, subs,
                   inflightCap, session>>

\* an administrator activates or deactivates an employee ("Admins can manage
\* employees"; the page has no control for is_active)
adminSetEmployeeActive ==
    /\ dbChanges < MaxDbChanges
    /\ dbChanges' = dbChanges + 1
    /\ \E id \in ChangedEmployees \cap DOMAIN db_employees :
          db_employees' = [db_employees EXCEPT ![id] = ~db_employees[id]]
    /\ UNCHANGED <<db_tax_rules, db_payroll_records, employees, payrollRecords,
                   taxRules, payrollDialogOpen, payrollForm, pending, subs,
                   inflightCap, session>>

\* the employee dialog is saved for an employee being edited, with the values
\* handleEditEmployee put there: the row is written again (is_active is not
\* among the columns written) and fetchEmployees started
onEmployeeSubmit ==
    /\ \E i \in 1..Len(employees) : employees[i].id \in DOMAIN db_employees
    /\ "employees" \notin pending
    /\ pending' = pending \cup {"employees"}
    /\ UNCHANGED <<db_tax_rules, db_employees, db_payroll_records, dbChanges,
                   employees, payrollRecords, taxRules, payrollDialogOpen,
                   payrollForm, subs, inflightCap, session>>

\* handleDeleteEmployee with the payroll records of the employee deleted too
handleDeleteEmployeeCascade ==
    /\ dbChanges < MaxDbChanges
    /\ dbChanges' = dbChanges + 1
    /\ \E i \in 1..Len(employees) :
          LET id == employees[i].id
          IN  /\ id \in ChangedEmployees \cap DOMAIN db_employees
              /\ db_payroll_records' =
                     SelectSeq(db_payroll_records, LAMBDA r : r.employee_id # id)
              /\ db_employees' = [e \in DOMAIN db_employees \ {id} |-> db_employees[e]]
    /\ pending' = pending \cup {"employees"}
    /\ UNCHANGED <<db_tax_rules, employees, payrollRecords, taxRules,
                   payrollDialogOpen, payrollForm, subs, inflightCap, session>>

\* the delete button of a listed employee, confirmed: the row is deleted
\* unless a payroll record references it (then the datastore answers with an
\* error and nothing changes), and fetchEmployees is started
handleDeleteEmployee ==
    /\ dbChanges < MaxDbChanges
    /\ dbChanges' = dbChanges + 1
    /\ \E i \in 1..Len(employees) :
          LET id == employees[i].id
          IN  /\ id \in ChangedEmployees \cap DOMAIN db_employees
              /\ \A k \in 1..Len(db_payroll_records) :
                     db_payroll_records[k].employee_id # id
              /\ db_employees' = [e \in DOMAIN db_employees \ {id} |-> db_employees[e]]
    /\ pending' = pending \cup {"employees"}
    /\ UNCHANGED <<db_tax_rules, db_payroll_records, employees, payrollRecords,
                   taxRules, payrollDialogOpen, payrollForm, subs, inflightCap,
                   session>>

Next ==
    \/ fetchEmployeesData
    \/ fetchPayrollRecordsData
    \/ fetchTaxRulesData
    \/ fetchError
    \/ openPayrollDialog
    \/ closePayrollDialog
    \/ handleSubmitInvalid
    \/ onPayrollSubmit
    \/ \E s \in Slots : onPayrollSubmitReturn(s)
    \/ \E s \in Slots : onPayrollSubmitCompute(s)
    \/ \E s \in Slots : onPayrollSubmitInsertError(s)
    \/ \E s \in Slots : onPayrollSubmitInserted(s)
    \/ adminSetTaxRuleActive
    \/ adminSetEmployeeActive
    \/ onEmployeeSubmit
    \/ handleDeleteEmployee

Spec == Init /\ [][Next]_vars

\* the sessions followed when submissions overlap
OverlapSessions ==
    {[employee_id |-> 1, inputs |-> <<160, 10, EmptyStr, EmptyStr>>,
      period |-> <<1, 31>>],
     [employee_id |-> 2, inputs |-> <<0, EmptyStr, EmptyStr, 200>>,
      period |-> <<1, 31>>]}

\* the page with "Generate Payroll" pressed again while a submission waits
InitOverlap ==
    /\ db_tax_rules = [id \in TaxRuleIds |-> id \in {1, 2}]
    /\ db_employees = [id \in EmployeeIds |-> TRUE]
    /\ db_payroll_records = <<>>
    /\ dbChanges = 0
    /\ employees = <<>>
    /\ payrollRecords = <<>>
    /\ taxRules = <<>>
    /\ payrollDialogOpen = FALSE
    /\ payrollForm = DefaultValues
    /\ pending = {"employees", "payroll_records", "tax_rules"}
    /\ subs = [s \in Slots |-> Idle]
    /\ inflightCap = Cardinality(Slots)
    /\ session \in OverlapSessions

SpecOverlap == InitOverlap /\ [][Next]_vars

\* the page opened on every set of active tax rules, for one session
InitTaxRules ==
    /\ db_tax_rules \in [TaxRuleIds -> BOOLEAN]
    /\ db_employees = [id \in EmployeeIds |-> TRUE]
    /\ db_payroll_records = <<>>
    /\ dbChanges = 0
    /\ employees = <<>>
    /\ payrollRecords = <<>>
    /\ taxRules = <<>>
    /\ payrollDialogOpen = FALSE
    /\ payrollForm = DefaultValues
    /\ pending = {"employees", "payroll_records", "tax_rules"}
    /\ subs = [s \in Slots |-> Idle]
    /\ inflightCap = 1
    /\ session = [employee_id |-> 2, inputs |-> <<160, EmptyStr, 500, 200>>,
                  period |-> <<1, 31>>]

SpecTaxRules == InitTaxRules /\ [][Next]_vars

-----------------------------------------------------------------------------
(* Properties *)

\* the gross amounts the tax computation is examined on
GrossValues ==
    {Money(n) : n \in {0, 100, 200, 500, 600, 1000, 1100, 1500, 3500, 5000}}

\* the onPayrollSubmit calls that have built payrollData and sent the insert
Generated == {s \in Slots : subs[s].pc = "insert"}

\* every rate is non-negative
NonNegativeRates(rules) == \A i \in 1..Len(rules) : rules[i].rate >= 0

\* no rule has a threshold_max below its threshold_min
CapsAboveFloors(rules) ==
    \A i \in 1..Len(rules) :
        rules[i].threshold_max # NULL =>
            rules[i].threshold_max >= (IF rules[i].threshold_min = NULL
                                       THEN 0 ELSE rules[i].threshold_min)

\* the rule sequence in another order
Permuted(rules, order) == [i \in 1..Len(rules) |-> rules[order[i]]]

RECURSIVE StatedTax(_, _)
\* the tax as C1 states it: rate is a fraction, threshold_min defaults to 0, an
\* absent threshold_max is no cap
StatedTax(gross, rules) ==
    IF rules = <<>> THEN 0
    ELSE LET rule == rules[Len(rules)]
             rest == StatedTax(gross, SubSeq(rules, 1, Len(rules) - 1))
             lo == IF rule.threshold_min = NULL THEN 0 ELSE rule.threshold_min
             capped == IF rule.threshold_max = NULL \/ gross < rule.threshold_max
                       THEN gross ELSE rule.threshold_max
         IN  IF gross > lo THEN rest + TimesRate(capped - lo, rule.rate, 1) ELSE rest

\* C1: for every gross >= 0 and every rule list, calculateTax returns the sum,
\* over the rules with gross > threshold_min, of
\* (min(gross, threshold_max) - threshold_min) * rate, with rate a fraction; in
\* particular 200 for gross 1500 under {0.10, 0, 1000} and {0.20, 1000, none}.
C1_TaxIsSumOfBracketShares ==
    /\ \A g \in GrossValues : calculateTax(g, taxRules) = StatedTax(g, taxRules)
    /\ taxRules = TaxRuleRows(<<1, 2>>) => calculateTax(Money(1500), taxRules) = Money(200)

\* C2: every payrollData built by onPayrollSubmit has
\* net_salary = gross_salary - tax_deductions - deductions.
C2_NetIdentity ==
    \A s \in Generated :
        LET d == subs[s].payrollData
        IN  d.net_salary = d.gross_salary - d.tax_deductions - d.deductions

\* C2 witness: a payroll was generated with a tax and with deductions.
C2_Witness ==
    \E s \in Generated :
        subs[s].payrollData.tax_deductions > 0 /\ subs[s].payrollData.deductions > 0

\* the tax under a rule list never decreases as gross increases
NeverDecreases(rules) ==
    LET tax == [g \in GrossValues |-> calculateTax(g, rules)]
    IN  \A g1, g2 \in GrossValues : g1 <= g2 => tax[g1] <= tax[g2]

\* C3 as stated: with non-negative rates and no other restriction on the
\* thresholds, the tax never decreases as gross increases.
C3_Monotonic ==
    NonNegativeRates(taxRules) => NeverDecreases(taxRules)

\* C3 amended: under every rule list the page loads that has non-negative
\* rates and no rule whose threshold_max is below its threshold_min, the tax
\* never decreases as gross increases.
C3_MonotonicCapsAboveFloors ==
    [][(taxRules' # taxRules /\ NonNegativeRates(taxRules')
            /\ CapsAboveFloors(taxRules')) => NeverDecreases(taxRules')]_vars

\* C3 witness: two or more such rules are loaded and the tax grows with gross.
C3_Witness ==
    /\ Len(taxRules) >= 2
    /\ NonNegativeRates(taxRules) /\ CapsAboveFloors(taxRules)
    /\ calculateTax(Money(1000), taxRules) < calculateTax(Money(1500), taxRules)

\* C4 as stated: with non-negative rates the tax is never negative, also when
\* a rule has threshold_max < threshold_min.
C4_NonNegative ==
    NonNegativeRates(taxRules) =>
        \A g \in GrossValues : calculateTax(g, taxRules) >= 0

\* C4 amended: under every rule list the page loads that has non-negative
\* rates and no rule whose threshold_max is below its threshold_min, the tax
\* is never negative.
C4_NonNegativeCapsAboveFloors ==
    [][(taxRules' # taxRules /\ NonNegativeRates(taxRules')
            /\ CapsAboveFloors(taxRules')) =>
                \A g \in GrossValues : calculateTax(g, taxRules') >= 0]_vars

\* C4 witness: such rules are loaded and a gross below one rule's
\* threshold_min is taxed by another.
C4_Witness ==
    /\ NonNegativeRates(taxRules) /\ CapsAboveFloors(taxRules)
    /\ \E i \in 1..Len(taxRules) : OrElse(taxRules[i].threshold_min, 0) > Money(500)
    /\ calculateTax(Money(500), taxRules) > 0

\* C5: the tax is 0 for every gross when the rule list is empty, and the rule
\* list fetched from a table with no active rule is empty.
C5_NoActiveRuleNoTax ==
    \A g \in GrossValues :
        /\ (taxRules = <<>> => calculateTax(g, taxRules) = 0)
        /\ (\A id \in TaxRuleIds : ~db_tax_rules[id]) =>
               \A ids \in SelectActiveTaxRules(db_tax_rules) :
                   calculateTax(g, TaxRuleRows(ids)) = 0

\* C5 witness: the table holds only inactive rules, the rules were fetched
\* and a payroll with a positive gross was generated with no tax.
C5_Witness ==
    /\ \A id \in TaxRuleIds : ~db_tax_rules[id]
    /\ dbChanges = 0
    /\ "tax_rules" \notin pending
    /\ \E s \in Generated :
          subs[s].payrollData.gross_salary > 0 /\ subs[s].payrollData.tax_deductions = 0

\* the tax under a rule list is the same with the list in every order
OrderIndependent(rules) ==
    LET grosses == {Money(200), Money(600), Money(1100), Money(5000)}
        asLoaded == [g \in grosses |-> calculateTax(g, rules)]
    IN  \A order \in SeqsOf(1..Len(rules)) :
            \A g \in grosses :
                calculateTax(g, Permuted(rules, order)) = asLoaded[g]

ActiveNow(rules) == SelectSeq(rules, LAMBDA r : db_tax_rules[r.id])

\* C7: whenever a payroll is generated, its tax_deductions is the tax under
\* the rules that are active in the table at that moment.
C7_OnlyActiveRulesTaxed ==
    [][\A s \in Slots :
          (subs[s].pc = "getUser" /\ subs'[s].pc = "insert") =>
              subs'[s].payrollData.tax_deductions =
                  calculateTax(subs'[s].payrollData.gross_salary,
                               ActiveNow(subs[s].taxRules))]_vars

\* C8: for an employee with an hourly_rate (not null), gross before
\* allowances is hours_worked * hourly_rate + overtime_hours * hourly_rate * 1.5
\* and base_salary does not enter.
C8_HourlyGross ==
    \A s \in Generated :
        LET d == subs[s].payrollData
            rate == subs[s].employee.hourly_rate
        IN  (rate # NULL /\ d.hours_worked >= 0 /\ d.overtime_hours >= 0) =>
                d.gross_salary - d.allowances =
                    d.hours_worked * rate + (d.overtime_hours * rate * 3) \div 2

\* C9: for an employee with no hourly_rate, gross before allowances is
\* base_salary, and gross, tax and net are what base_salary, allowances,
\* deductions and the rules give, whatever the hours.
C9_SalariedIgnoresHours ==
    \A s \in Generated :
        LET d == subs[s].payrollData
            e == subs[s].employee
        IN  e.hourly_rate = NULL =>
                /\ d.gross_salary - d.allowances = e.base_salary
                /\ d.tax_deductions =
                       calculateTax(e.base_salary + d.allowances, subs[s].taxRules)
                /\ d.net_salary =
                       e.base_salary + d.allowances
                       - calculateTax(e.base_salary + d.allowances, subs[s].taxRules)
                       - d.deductions

\* C9 witness: a payroll was generated for a salaried employee with hours and
\* overtime hours entered, under rules that tax it.
C9_Witness ==
    \E s \in Generated :
        /\ subs[s].employee.hourly_rate = NULL
        /\ subs[s].payrollData.hours_worked > 0
        /\ subs[s].payrollData.overtime_hours > 0
        /\ subs[s].payrollData.tax_deductions > 0

\* C10: the amount taxed is the basis gross plus the allowances, gross_salary
\* is that amount, and the deductions are no part of it.
C10_AllowancesTaxed ==
    \A s \in Generated :
        LET d == subs[s].payrollData
            basis == grossBeforeAllowances(subs[s].employee, d.hours_worked,
                                           d.overtime_hours)
        IN  /\ d.gross_salary = basis + d.allowances
            /\ d.tax_deductions = calculateTax(basis + d.allowances, subs[s].taxRules)

\* C10 witness: a payroll was generated with allowances and deductions, and
\* the allowances raised the tax.
C10_Witness ==
    \E s \in Generated :
        LET d == subs[s].payrollData
        IN  /\ d.allowances > 0
            /\ d.deductions > 0
            /\ d.tax_deductions >
                   calculateTax(d.gross_salary - d.allowances, subs[s].taxRules)

\* the amount typed into a number field of the dialog (nothing typed: 0)
Typed(str) == IF str = EmptyStr THEN 0 ELSE str * Den

\* C11: the record handed to the datastore carries the inputs and the computed
\* values: employee and period as entered, deductions and allowances as typed,
\* gross_salary the gross, tax_deductions the tax and net_salary the net.
C11_RecordCarriesValues ==
    \A s \in Generated :
        LET d == subs[s].payrollData
            v == subs[s].values
            gross == grossBeforeAllowances(subs[s].employee, d.hours_worked,
                                           d.overtime_hours) + Typed(v.allowances)
            tax == calculateTax(gross, subs[s].taxRules)
        IN  /\ d.employee_id = v.employee_id
            /\ d.pay_period_start = v.pay_period_start
            /\ d.pay_period_end = v.pay_period_end
            /\ d.deductions = Typed(v.deductions)
            /\ d.allowances = Typed(v.allowances)
            /\ d.gross_salary = gross
            /\ d.tax_deductions = tax
            /\ d.net_salary = gross - tax - Typed(v.deductions)

\* C11 witness: a record with allowances, deductions and a tax was handed to
\* the datastore and stored.
C11_Witness ==
    \E i \in 1..Len(db_payroll_records) :
        LET r == db_payroll_records[i]
        IN  r.allowances = Money(500) /\ r.deductions = Money(200)
            /\ r.tax_deductions > 0

\* the row of the employee a submission pays is marked inactive in the table
InactiveInTable(id) == id \in DOMAIN db_employees /\ ~db_employees[id]

\* C12: a submission for an employee whose is_active is false fails before
\* anything is computed, so it never reaches the insert.
C12_InactiveEmployeeRejected ==
    [][\A s \in Slots :
          (subs[s].pc = "getUser" /\ subs'[s].pc = "insert") =>
              ~InactiveInTable(subs[s].values.employee_id)]_vars

\* C13: no payroll record is produced with hours_worked < 0 or
\* overtime_hours < 0.
C13_NegativeHoursRejected ==
    /\ \A s \in Generated :
          subs[s].payrollData.hours_worked >= 0
          /\ subs[s].payrollData.overtime_hours >= 0
    /\ \A i \in 1..Len(db_payroll_records) :
          db_payroll_records[i].hours_worked >= 0
          /\ db_payroll_records[i].overtime_hours >= 0

\* the step stores the record of the submission in slot s
Stored(s) ==
    /\ subs[s].pc = "insert"
    /\ subs'[s].pc = "idle"
    /\ db_payroll_records' =
           Append(db_payroll_records, StoredRow(subs[s].payrollData))

\* the step ends the submission in slot s without storing its record
Failed(s) == subs[s].pc # "idle" /\ subs'[s].pc = "idle" /\ ~Stored(s)

C15_NegativeNetAllowed ==
    /\ \A s \in Generated :
          LET d == subs[s].payrollData
          IN  d.deductions > d.gross_salary - d.tax_deductions =>
                  /\ d.net_salary < 0
                  /\ d.net_salary = d.gross_salary - d.tax_deductions - d.deductions
    /\ \A i \in 1..Len(db_payroll_records) :
          LET r == db_payroll_records[i]
          IN  r.deductions > r.gross_salary - r.tax_deductions => r.net_salary < 0

\* C15 witness: a record with a negative net_salary is stored.
C15_Witness ==
    \E i \in 1..Len(db_payroll_records) :
        LET r == db_payroll_records[i]
        IN  /\ r.net_salary < 0
            /\ r.net_salary = r.gross_salary - r.tax_deductions - r.deductions

\* C16: the table holds at most one payroll record for each employee and pay
\* period.
C16_OneRecordPerPeriod ==
    \A i, j \in 1..Len(db_payroll_records) :
        LET a == db_payroll_records[i]
            b == db_payroll_records[j]
        IN  (a.employee_id = b.employee_id
             /\ a.pay_period_start = b.pay_period_start
             /\ a.pay_period_end = b.pay_period_end) => i = j

\* C17: no step of the page or of the datastore changes or removes a stored
\* payroll record: the table only grows at its end.
C17_RecordsImmutable ==
    [][/\ Len(db_payroll_records') >= Len(db_payroll_records)
       /\ SubSeq(db_payroll_records', 1, Len(db_payroll_records))
              = db_payroll_records]_vars

\* C17 witness: a record is stored and the page has fetched it, a row of the
\* tables was changed and a fetch of the employees is outstanding.
C17_Witness ==
    /\ Len(db_payroll_records) >= 1
    /\ payrollRecords = SelectPayrollRecords(db_payroll_records)
    /\ "employees" \in pending
    /\ dbChanges >= 1

\* the amounts of a payroll record
Amounts(d) ==
    <<d.gross_salary, d.tax_deductions, d.deductions, d.allowances, d.net_salary>>

\* C18: two runs for the same employee with the same inputs under the same
\* rule list give the same gross_salary, tax_deductions, deductions,
\* allowances and net_salary, whatever else the state holds.
C18_Deterministic ==
    \A s, t \in Generated :
        (/\ subs[s].employee = subs[t].employee
         /\ subs[s].values = subs[t].values
         /\ subs[s].taxRules = subs[t].taxRules) =>
            Amounts(subs[s].payrollData) = Amounts(subs[t].payrollData)

\* C18 witness: two runs with the same employee, inputs and rule list have
\* computed a tax, after the rules the page holds changed.
C18_Witness ==
    \E s, t \in Generated :
        /\ s # t
        /\ subs[s].employee = subs[t].employee
        /\ subs[s].values = subs[t].values
        /\ subs[s].taxRules = subs[t].taxRules
        /\ subs[s].taxRules # taxRules
        /\ subs[s].payrollData.gross_salary > 0

\* C19: with two submissions in flight, the record each one computes is the
\* record of its own values, its own employee list and its own rule list, and
\* the step leaves the other submission as it was.
C19_NoInterference ==
    [][\A s \in Slots :
          (subs[s].pc = "getUser" /\ subs'[s].pc = "insert") =>
              LET own == subs[s]
                  employee == own.employees[FindEmployee(own.employees,
                                                         own.values.employee_id)]
              IN  /\ subs'[s].payrollData =
                         payrollData(own.values, employee, own.taxRules,
                                     subs'[s].payrollData.created_by)
                  /\ \A t \in Slots \ {s} : subs'[t] = subs[t]]_vars

\* C19 witness: two submissions are in flight with different rule lists and
\* have computed different taxes.
C19_Witness ==
    \E s, t \in Generated :
        /\ subs[s].taxRules # subs[t].taxRules
        /\ subs[s].payrollData.tax_deductions # subs[t].payrollData.tax_deductions

\* C20: every payroll record is stored for an employee whose is_active is
\* true in the table when the record is generated.
C20_OnlyActiveEmployeesPaid ==
    [][\A s \in Slots :
          Stored(s) => /\ subs[s].payrollData.employee_id \in DOMAIN db_employees
                       /\ db_employees[subs[s].payrollData.employee_id]]_vars

\* the payroll records computed or stored
Produced ==
    {subs[s].payrollData : s \in Generated}
    \cup {db_payroll_records[i] : i \in 1..Len(db_payroll_records)}

\* C21: in every payroll record produced, gross_salary, tax_deductions,
\* deductions and allowances are >= 0.
C21_NonNegativeAmounts ==
    \A d \in Produced :
        /\ d.gross_salary >= 0
        /\ d.tax_deductions >= 0
        /\ d.deductions >= 0
        /\ d.allowances >= 0

\* C22: every payroll record produced has pay_period_start <= pay_period_end.
C22_PeriodOrdered ==
    \A d \in Produced : d.pay_period_start <= d.pay_period_end

\* C23: for every loaded employee whose hourly_rate is not null, 0 included,
\* gross before allowances is hours * rate + overtime hours * rate * 1.5,
\* whatever base_salary is.
C23_BasisByPresence ==
    \A i \in 1..Len(employees) :
        LET rate == employees[i].hourly_rate
        IN  rate # NULL =>
                \A h \in {0, 160} : \A o \in {0, 10} :
                    grossBeforeAllowances(employees[i], h, o)
                        = h * rate + (o * rate * 3) \div 2

\* C24: a loaded rule with a threshold_max M at or above its threshold_min m
\* contributes at most (M - m) * rate to the tax of every gross, M = 0
\* included.
C24_MaxCapsContribution ==
    \A i \in 1..Len(taxRules) :
        LET rule == taxRules[i]
            m == IF rule.threshold_min = NULL THEN 0 ELSE rule.threshold_min
        IN  (rule.threshold_max # NULL /\ rule.threshold_max >= m) =>
                \A g \in GrossValues :
                    calculateTax(g, <<rule>>)
                        <= TimesRate(rule.threshold_max - m, rule.rate, 1)

\* the rules, in ascending order, tile the income axis from 0: each
\* threshold_max is the next threshold_min and the last rule has none
Tiles(rules) ==
    /\ Len(rules) >= 1
    /\ rules[1].threshold_min = 0
    /\ rules[Len(rules)].threshold_max = NULL
    /\ \A i \in 1..(Len(rules) - 1) :
          /\ rules[i].threshold_max # NULL
          /\ rules[i].threshold_min < rules[i].threshold_max
          /\ rules[i].threshold_max = rules[i + 1].threshold_min

RECURSIVE MarginalWalk(_, _, _)
\* the tax on the income that remains, from bracket i upwards
MarginalWalk(remaining, rules, i) ==
    IF i > Len(rules) \/ remaining <= 0 THEN 0
    ELSE LET width == IF rules[i].threshold_max = NULL THEN remaining
                      ELSE MathMin(remaining,
                                   rules[i].threshold_max - rules[i].threshold_min)
         IN  TimesRate(width, rules[i].rate, 1)
             + MarginalWalk(remaining - width, rules, i + 1)

\* C25: under loaded rules that tile the income axis, the tax of every gross
\* is the marginal tax of walking the brackets in ascending order, each rate a
\* fraction of the income in its bracket.
C25_EqualsMarginalWalk ==
    Tiles(taxRules) =>
        \A g \in GrossValues : calculateTax(g, taxRules) = MarginalWalk(g, taxRules, 1)

\* the rule list is the initial empty list or the whole answer of a
\* fetchTaxRules: the rows of a set of rules, ordered by threshold_min
LoadedOrInitial(rules) ==
    \/ rules = <<>>
    \/ \E ids \in SelectActiveTaxRules(
                      [id \in TaxRuleIds |->
                          id \in {rules[i].id : i \in 1..Len(rules)}]) :
          rules = TaxRuleRows(ids)

\* C26: a submission takes the taxRules of the page when it starts, which is
\* the initial empty list or the answer of one fetchTaxRules; no later step,
\* a completing fetch included, changes the list it holds; and its tax is
\* calculateTax under that list, 0 when the list is empty.
C26_RulesSnapshot ==
    [][\A s \in Slots :
          /\ (subs[s].pc = "idle" /\ subs'[s].pc = "getUser") =>
                 /\ subs'[s].taxRules = taxRules
                 /\ LoadedOrInitial(taxRules)
          /\ (subs[s].pc = "getUser" /\ subs'[s].pc = "getUser") =>
                 subs'[s].taxRules = subs[s].taxRules
          /\ (subs[s].pc = "getUser" /\ subs'[s].pc = "insert") =>
                 /\ subs'[s].payrollData.tax_deductions =
                        calculateTax(subs'[s].payrollData.gross_salary,
                                     subs[s].taxRules)
                 /\ subs[s].taxRules = <<>> =>
                        subs'[s].payrollData.tax_deductions = 0]_vars

\* C26 witness: a submission started before any fetchTaxRules completed, the
\* fetch completed with rules while it waited, and its tax is 0.
C26_Witness ==
    \E s \in Generated :
        /\ subs[s].taxRules = <<>>
        /\ taxRules # <<>>
        /\ calculateTax(subs[s].payrollData.gross_salary, taxRules) > 0
        /\ subs[s].payrollData.tax_deductions = 0

\* every rate is between 0 and 100%
RatesAtMostAll(rules) ==
    \A i \in 1..Len(rules) : rules[i].rate >= 0 /\ rules[i].rate <= RateDen

\* C27: under rules that tile the income axis with rates of at most 100%,
\* 0 <= tax <= gross for every gross >= 0, and every record computed under
\* such rules has net_salary <= gross_salary - deductions.
C27_TaxAtMostGross ==
    [][/\ (taxRules' # taxRules /\ Tiles(taxRules') /\ RatesAtMostAll(taxRules')) =>
              \A g \in GrossValues :
                  calculateTax(g, taxRules') >= 0 /\ calculateTax(g, taxRules') <= g
       /\ \A s \in Slots :
             (/\ subs[s].pc = "getUser" /\ subs'[s].pc = "insert"
              /\ Tiles(subs[s].taxRules) /\ RatesAtMostAll(subs[s].taxRules)
              /\ subs'[s].payrollData.gross_salary >= 0) =>
                 LET d == subs'[s].payrollData
                 IN  /\ d.tax_deductions >= 0
                     /\ d.tax_deductions <= d.gross_salary
                     /\ d.net_salary <= d.gross_salary - d.deductions]_vars

\* C27 witness: tiling rules are loaded and a record was computed under them
\* with a positive tax.
C27_Witness ==
    /\ Tiles(taxRules) /\ RatesAtMostAll(taxRules)
    /\ \E s \in Generated :
          /\ subs[s].taxRules = taxRules
          /\ subs[s].payrollData.tax_deductions > 0
          /\ subs[s].payrollData.tax_deductions < subs[s].payrollData.gross_salary

\* C28: a submission reaches the insert only with a user and with its
\* employee id found in its employee list, and the record has created_by
\* equal to that user; otherwise it returns and leaves the table, the form,
\* the dialog and the loaded records as they were.
C28_InsertNeedsUserAndEmployee ==
    [][\A s \in Slots :
          /\ (subs[s].pc = "getUser" /\ subs'[s].pc = "insert") =>
                 /\ FindEmployee(subs[s].employees, subs[s].values.employee_id) # 0
                 /\ subs'[s].payrollData.created_by \in UserIds
                 /\ subs'[s].employee.id = subs[s].values.employee_id
          /\ Stored(s) =>
                 db_payroll_records'[Len(db_payroll_records')].created_by \in UserIds
          /\ (subs[s].pc = "getUser" /\ subs'[s].pc = "idle") =>
                 /\ db_payroll_records' = db_payroll_records
                 /\ payrollForm' = payrollForm
                 /\ payrollDialogOpen' = payrollDialogOpen
                 /\ payrollRecords' = payrollRecords
                 /\ pending' = pending]_vars

\* C28 witness: a submission waits for getUser with an employee id that is
\* not in its employee list, the dialog open and the form filled.
C28_Witness ==
    \E s \in Slots :
        /\ subs[s].pc = "getUser"
        /\ FindEmployee(subs[s].employees, subs[s].values.employee_id) = 0
        /\ payrollDialogOpen
        /\ payrollForm = subs[s].values

\* C29: a rejected insert leaves the form, the dialog, the loaded records and
\* the outstanding fetches as they were; a stored record resets the form,
\* closes the dialog and starts fetchPayrollRecords; and the form is reset by
\* no other step.
C29_RejectedInsertLeavesPage ==
    [][/\ \A s \in Slots :
             /\ (Failed(s) /\ subs[s].pc = "insert") =>
                    /\ payrollForm' = payrollForm
                    /\ payrollDialogOpen' = payrollDialogOpen
                    /\ payrollRecords' = payrollRecords
                    /\ pending' = pending
             /\ Stored(s) =>
                    /\ payrollForm' = DefaultValues
                    /\ ~payrollDialogOpen'
                    /\ "payroll_records" \in pending'
       /\ (payrollForm # DefaultValues /\ payrollForm' = DefaultValues) =>
              \E s \in Slots : Stored(s)]_vars

\* C29 witness: an insert was sent for an employee whose row is deleted, so
\* it will be rejected, with the dialog open and the form filled.
C29_Witness ==
    \E s \in Generated :
        /\ subs[s].payrollData.employee_id \notin DOMAIN db_employees
        /\ payrollDialogOpen
        /\ payrollForm = subs[s].values
        /\ "payroll_records" \notin pending

=============================================================================
